---- MODULE Spec2Model ----
(***************************************************************************)
(* glowl: RAII wrappers around OpenGL objects.                             *)
(*                                                                         *)
(*   Texture2D                  src/include/glowl/Texture2D.hpp            *)
(*   ShaderStorageBufferObject  src/unnamed/part_000                       *)
(*                                                                         *)
(* Every wrapper method is a straight sequence of driver calls.  The GL    *)
(* context is one record `gl'; a driver call is an operator from context   *)
(* to context, and a wrapper method is the composition of the calls it     *)
(* makes, in source order.  The context follows the OpenGL 4.5 core        *)
(* profile: a failing command sets the (sticky) error flag and has no      *)
(* other effect; glGetError returns the flag and clears it.                *)
(* Texture2D is built with ARB_bindless_texture                            *)
(* (GLOWL_NO_ARB_BINDLESS_TEXTURE undefined).  The context also holds a     *)
(* framebuffer and a buffer of the application, which no wrapper created.  *)
(***************************************************************************)
EXTENDS Integers, Sequences, FiniteSets

\* ------------------------------------------------------------------ bounds
NumTex == 1
NumSsbo == 1
MaxTex == 2
MaxBuf == 2
MaxFbo == 2
MaxIndex == 2
MaxSize == 1
MaxDim == 2
MaxLevels == 2

TexIds == 1..NumTex
SsboIds == 1..NumSsbo
TexNames == 1..MaxTex
BufNames == 1..MaxBuf
FboNames == 1..MaxFbo
Indices == 0..(MaxIndex - 1)
Sizes == 1..MaxSize

\* The framebuffer and the buffer the application owns and may have bound:
\* objects of the context that no wrapper created.
AppFbo == 1
AppBuf == 1

\* ------------------------------------------------------------- the context
NoTex == [live |-> FALSE, owner |-> 0, levels |-> 0, handle |-> FALSE]
NoBuf == [live |-> FALSE, owner |-> 0, size |-> 0, mapped |-> FALSE]

Raise(g, e) ==
    [g EXCEPT !.err = IF @ = "GL_NO_ERROR" THEN e ELSE @, !.raised = TRUE]

Logged(g, call, name) ==
    [g EXCEPT !.log = Append(@, [call |-> call, name |-> name])]

\* raised and log are bookkeeping of one wrapper operation: whether one of
\* its driver calls set an error, and the names it created and deleted.  The
\* context between operations is kept without them.
Rest(g) == [g EXCEPT !.raised = FALSE, !.log = <<>>]

glGetError(g) == [g EXCEPT !.err = "GL_NO_ERROR"]

TexLive(g, n) == n \in TexNames /\ g.tex[n].live
BufLive(g, n) == n \in BufNames /\ g.buf[n].live

FreeTex(g) == {n \in TexNames : ~g.tex[n].live}
FreeBuf(g) == {n \in BufNames : ~g.buf[n].live}
FreeFbo(g) == FboNames \ g.fbo

\* n is the name the driver issues, 0 when it cannot issue one.
glCreateTextures(g, n, owner) ==
    IF n = 0 THEN Raise(g, "GL_OUT_OF_MEMORY")
    ELSE Logged([g EXCEPT !.tex[n] =
                    [live |-> TRUE, owner |-> owner, levels |-> 0, handle |-> FALSE]],
                "glCreateTextures", n)

\* The value the call leaves in its output parameter.
Out(old, n) == IF n = 0 THEN old ELSE n

glDeleteTextures(g, n) ==
    IF TexLive(g, n)
    THEN Logged([g EXCEPT !.tex[n] = NoTex,
                          !.texBinding = IF @ = n THEN 0 ELSE @,
                          !.attach = [f \in FboNames |-> IF @[f] = n THEN 0 ELSE @[f]]],
                "glDeleteTextures", n)
    ELSE Logged(g, "glDeleteTextures(unused)", n)

glTextureParameter(g, n, pname) ==
    IF ~TexLive(g, n) THEN Raise(g, "GL_INVALID_OPERATION")
    ELSE IF pname = "GL_BAD_PNAME" THEN Raise(g, "GL_INVALID_ENUM")
    ELSE g

RECURSIVE glTextureParameters(_, _, _)
glTextureParameters(g, n, params) ==
    IF params = <<>> THEN g
    ELSE glTextureParameters(glTextureParameter(g, n, Head(params)), n, Tail(params))

Max(a, b) == IF a >= b THEN a ELSE b

RECURSIVE FloorLog2(_)
FloorLog2(x) == IF x <= 1 THEN 0 ELSE 1 + FloorLog2(x \div 2)

glTextureStorage2D(g, n, levels, width, height) ==
    IF ~TexLive(g, n) THEN Raise(g, "GL_INVALID_OPERATION")
    ELSE IF levels < 1 \/ width < 1 \/ height < 1 THEN Raise(g, "GL_INVALID_VALUE")
    ELSE IF g.tex[n].levels # 0 THEN Raise(g, "GL_INVALID_OPERATION")
    ELSE IF levels > 1 + FloorLog2(Max(width, height))
         THEN Raise(g, "GL_INVALID_OPERATION")
    ELSE [g EXCEPT !.tex[n].levels = levels]

glTextureSubImage2D(g, n) ==
    IF ~TexLive(g, n) \/ g.tex[n].levels = 0 THEN Raise(g, "GL_INVALID_OPERATION")
    ELSE g

glGenerateTextureMipmap(g, n) ==
    IF ~TexLive(g, n) THEN Raise(g, "GL_INVALID_OPERATION") ELSE g

\* A bindless handle is an opaque 64-bit value that identifies one texture
\* object; 0 is no handle.
NullHandle == [texture |-> 0]
HandleOf(n) == [texture |-> n]

\* What glGetTextureHandleARB returns.
TextureHandle(g, n) ==
    IF ~TexLive(g, n) \/ g.tex[n].levels = 0 THEN NullHandle ELSE HandleOf(n)

glGetTextureHandleARB(g, n) ==
    IF TextureHandle(g, n) = NullHandle THEN Raise(g, "GL_INVALID_OPERATION")
    ELSE [g EXCEPT !.tex[n].handle = TRUE]

\* The texture a handle gives access to: the live texture it was issued for.
HandleValid(g, h) == TexLive(g, h.texture) /\ g.tex[h.texture].handle

glClearTexImage(g, n, level) ==
    IF ~TexLive(g, n) THEN Raise(g, "GL_INVALID_OPERATION")
    ELSE IF level < 0 \/ level >= g.tex[n].levels THEN Raise(g, "GL_INVALID_OPERATION")
    ELSE g

glBindTexture(g, n) ==
    IF n = 0 \/ TexLive(g, n) THEN [g EXCEPT !.texBinding = n]
    ELSE Raise(g, "GL_INVALID_OPERATION")

glCreateFramebuffers(g, f) ==
    IF f = 0 THEN Raise(g, "GL_OUT_OF_MEMORY")
    ELSE Logged([g EXCEPT !.fbo = @ \cup {f}, !.attach[f] = 0],
                "glCreateFramebuffers", f)

\* target GL_FRAMEBUFFER sets both the draw and the read binding.
glBindFramebuffer(g, target, f) ==
    IF f # 0 /\ f \notin g.fbo THEN Raise(g, "GL_INVALID_OPERATION")
    ELSE [g EXCEPT
            !.drawFbo = IF target \in {"GL_FRAMEBUFFER", "GL_DRAW_FRAMEBUFFER"}
                        THEN f ELSE @,
            !.readFbo = IF target \in {"GL_FRAMEBUFFER", "GL_READ_FRAMEBUFFER"}
                        THEN f ELSE @]

\* Attaches to the framebuffer bound to GL_FRAMEBUFFER (the draw binding).
glFramebufferTexture2D(g, n) ==
    IF g.drawFbo = 0 THEN Raise(g, "GL_INVALID_OPERATION")
    ELSE IF n # 0 /\ ~TexLive(g, n) THEN Raise(g, "GL_INVALID_OPERATION")
    ELSE [g EXCEPT !.attach[g.drawFbo] = n]

\* Copies from the read framebuffer's colour attachment to the texture bound
\* to GL_TEXTURE_2D.
glCopyTexSubImage2D(g) ==
    IF g.readFbo # 0 /\ ~(TexLive(g, g.attach[g.readFbo])
                           /\ g.tex[g.attach[g.readFbo]].levels # 0)
    THEN Raise(g, "GL_INVALID_FRAMEBUFFER_OPERATION")
    ELSE IF g.texBinding = 0 \/ g.tex[g.texBinding].levels = 0
    THEN Raise(g, "GL_INVALID_OPERATION")
    ELSE g

glDeleteFramebuffers(g, f) ==
    IF f \in g.fbo
    THEN Logged([g EXCEPT !.fbo = @ \ {f},
                          !.attach[f] = 0,
                          !.drawFbo = IF @ = f THEN 0 ELSE @,
                          !.readFbo = IF @ = f THEN 0 ELSE @],
                "glDeleteFramebuffers", f)
    ELSE Logged(g, "glDeleteFramebuffers(unused)", f)

glGenBuffers(g, n, owner) ==
    IF n = 0 THEN Raise(g, "GL_OUT_OF_MEMORY")
    ELSE Logged([g EXCEPT !.buf[n] = [live |-> TRUE, owner |-> owner, size |-> 0,
                                     mapped |-> FALSE]],
                "glGenBuffers", n)

\* Binds to the indexed binding point and to the generic one.
glBindBufferBase(g, index, b) ==
    IF b # 0 /\ ~BufLive(g, b) THEN Raise(g, "GL_INVALID_OPERATION")
    ELSE [g EXCEPT !.ssbo[index] = b, !.ssboGeneric = b]

\* Acts on the buffer at the generic binding; memOk: the driver can
\* allocate a data store of the size asked for.  A new data store ends a
\* mapping of the old one.
glBufferData(g, size, memOk) ==
    IF g.ssboGeneric = 0 THEN Raise(g, "GL_INVALID_OPERATION")
    ELSE IF ~memOk THEN Raise(g, "GL_OUT_OF_MEMORY")
    ELSE [g EXCEPT !.buf[g.ssboGeneric].size = size,
                   !.buf[g.ssboGeneric].mapped = FALSE]

\* Maps the buffer at the generic binding; mapOk: the driver can map it.
\* ptr: whether the pointer returned is non-null.
glMapBuffer(g, mapOk) ==
    LET b == g.ssboGeneric
    IN  IF b = 0 \/ g.buf[b].mapped \/ g.buf[b].size = 0
        THEN [gl |-> Raise(g, "GL_INVALID_OPERATION"), ptr |-> FALSE]
        ELSE IF ~mapOk THEN [gl |-> Raise(g, "GL_OUT_OF_MEMORY"), ptr |-> FALSE]
        ELSE [gl |-> [g EXCEPT !.buf[b].mapped = TRUE], ptr |-> TRUE]

glUnmapBuffer(g) ==
    LET b == g.ssboGeneric
    IN  IF b = 0 \/ ~g.buf[b].mapped THEN Raise(g, "GL_INVALID_OPERATION")
        ELSE [g EXCEPT !.buf[b].mapped = FALSE]

glDeleteBuffers(g, b) ==
    IF BufLive(g, b)
    THEN Logged([g EXCEPT !.buf[b] = NoBuf,
                          !.ssbo = [i \in Indices |-> IF @[i] = b THEN 0 ELSE @[i]],
                          !.ssboGeneric = IF @ = b THEN 0 ELSE @],
                "glDeleteBuffers", b)
    ELSE Logged(g, "glDeleteBuffers(unused)", b)

\* ------------------------------------------------------------ TextureLayout
FormatTriples ==
    {<<"GL_RGBA8", "GL_RGBA", "GL_UNSIGNED_BYTE">>, <<"GL_R32F", "GL_RED", "GL_FLOAT">>}
ParamLists == {<<>>, <<"GL_TEXTURE_MIN_FILTER">>, <<"GL_BAD_PNAME">>}

\* layout.internal_format, .format, .type, .width, .height, .levels and the
\* parameter lists, as the constructor and reload read them.
Layouts ==
    {[internal_format |-> f[1], format |-> f[2], type |-> f[3],
      width |-> w, height |-> h, levels |-> l,
      int_parameters |-> p, float_parameters |-> <<>>] :
        f \in FormatTriples, w \in 1..MaxDim, h \in 1..MaxDim,
        l \in 1..MaxLevels, p \in ParamLists}

\* The layouts the lifecycle specification draws from: one format, 1 x 1,
\* no parameters; a level count above 1 is one the driver refuses.
SmallLayouts ==
    {l \in Layouts : /\ l.internal_format = "GL_RGBA8"
                     /\ l.width = 1 /\ l.height = 1
                     /\ l.int_parameters = <<>>}

\* TextureLayout(internal_format, width, height, depth, format, type, levels)
TextureLayout(internal_format, width, height, depth, format, type, levels) ==
    [internal_format |-> internal_format, width |-> width, height |-> height,
     depth |-> depth, format |-> format, type |-> type, levels |-> levels]

\* ---------------------------------------------------------------- Texture2D
NoTexture(st) ==
    [st |-> st, m_name |-> 0, m_texture_handle |-> NullHandle,
     m_width |-> 0, m_height |-> 0, m_levels |-> 0,
     m_internal_format |-> "", m_format |-> "", m_type |-> ""]

\* Texture(id, internal_format, format, type, levels): the base class keeps
\* its arguments; m_name is whatever the object's storage held.
Texture(internal_format, format, type, levels, name0) ==
    [st |-> "alive", m_name |-> name0, m_texture_handle |-> NullHandle,
     m_width |-> 0, m_height |-> 0, m_levels |-> levels,
     m_internal_format |-> internal_format, m_format |-> format, m_type |-> type]

\* Fault variant of MipLevels: the chain of the smaller side.  C8 fails on it.
MipLevels_OfSmallerSide(width, height) ==
    1 + FloorLog2(IF width <= height THEN width ELSE height)

MipLevels(width, height) == 1 + FloorLog2(Max(width, height))

\* The outcome of an operation: the context, the wrapper, whether it threw.
\* ret is false only where a bool-returning method returns false.
Outcome(g, self, threw) == [gl |-> g, self |-> self, threw |-> threw, ret |-> TRUE]

\* n: the name glCreateTextures issues (0: none); name0: the uninitialised
\* m_name.
Texture2D_ctor(g, id, layout, data, generateMipmap, customLevels, n, name0) ==
    LET base == Texture(layout.internal_format, layout.format, layout.type,
                        layout.levels, name0)
        s0 == [base EXCEPT !.m_width = layout.width, !.m_height = layout.height]
        g1 == glCreateTextures(g, n, id)
        s1 == [s0 EXCEPT !.m_name = Out(@, n)]
        g2 == glTextureParameters(g1, s1.m_name, layout.int_parameters)
        g3 == glTextureParameters(g2, s1.m_name, layout.float_parameters)
        s2 == IF generateMipmap /\ ~customLevels
              THEN [s1 EXCEPT !.m_levels = MipLevels(s1.m_width, s1.m_height)]
              ELSE s1
        g4 == glTextureStorage2D(g3, s2.m_name, s2.m_levels, s2.m_width, s2.m_height)
        g5 == IF data THEN glTextureSubImage2D(g4, s2.m_name) ELSE g4
        g6 == IF generateMipmap THEN glGenerateTextureMipmap(g5, s2.m_name) ELSE g5
        s3 == [s2 EXCEPT !.m_texture_handle = TextureHandle(g6, s2.m_name)]
        g7 == glGetTextureHandleARB(g6, s2.m_name)
    IN  Outcome(glGetError(g7), s3, g7.err # "GL_NO_ERROR")

Texture2D_dtor(g, self) ==
    Outcome(glDeleteTextures(g, self.m_name), NoTexture("dead"), FALSE)

Texture2D_bindTexture(g, self) ==
    Outcome(glBindTexture(g, self.m_name), self, FALSE)

Texture2D_updateMipmaps(g, self) ==
    Outcome(glGenerateTextureMipmap(g, self.m_name), self, FALSE)

\* srcName: src->getName(); f: the name glCreateFramebuffers issues (0: none);
\* fbo0: the uninitialised local fbo.
Texture2D_copyTexture(g, self, srcName, f, fbo0) ==
    LET active_draw_fbo == g.drawFbo
        active_read_fbo == g.readFbo
        g1 == glCreateFramebuffers(g, f)
        fbo == Out(fbo0, f)
        g2 == glBindFramebuffer(g1, "GL_FRAMEBUFFER", fbo)
        g3 == glFramebufferTexture2D(g2, srcName)
        g4 == glBindTexture(g3, self.m_name)
        g5 == glCopyTexSubImage2D(g4)
        g6 == glBindFramebuffer(g5, "GL_DRAW_FRAMEBUFFER", active_draw_fbo)
        g7 == glBindFramebuffer(g6, "GL_READ_FRAMEBUFFER", active_read_fbo)
        g8 == glBindTexture(g7, 0)
        g9 == glDeleteFramebuffers(g8, fbo)
    IN  Outcome(glGetError(g9), self, g9.err # "GL_NO_ERROR")

\* The first driver call of reload: glDeleteTextures(1, &m_name).
\* Fault variant of ReloadRelease: the name held is not deleted.  C2 fails
\* on it.
ReloadRelease_Leaking(g, name) == g

ReloadRelease(g, name) == glDeleteTextures(g, name)

\* n: the name glCreateTextures issues (0: none).
Texture2D_reload(g, id, self, layout, data, generateMipmap, customLevels, n) ==
    LET s0 == [self EXCEPT !.m_width = layout.width, !.m_height = layout.height,
                           !.m_internal_format = layout.internal_format,
                           !.m_format = layout.format, !.m_type = layout.type,
                           !.m_levels = layout.levels]
        g0 == ReloadRelease(g, s0.m_name)
        g1 == glCreateTextures(g0, n, id)
        s1 == [s0 EXCEPT !.m_name = Out(@, n)]
        g2 == glTextureParameters(g1, s1.m_name, layout.int_parameters)
        g3 == glTextureParameters(g2, s1.m_name, layout.float_parameters)
        s2 == IF generateMipmap /\ ~customLevels
              THEN [s1 EXCEPT !.m_levels = MipLevels(s1.m_width, s1.m_height)]
              ELSE s1
        g4 == glTextureStorage2D(g3, s2.m_name, s2.m_levels, s2.m_width, s2.m_height)
        g5 == IF data THEN glTextureSubImage2D(g4, s2.m_name) ELSE g4
        g6 == IF generateMipmap THEN glGenerateTextureMipmap(g5, s2.m_name) ELSE g5
    IN  Outcome(glGetError(g6), s2, g6.err # "GL_NO_ERROR")

Texture2D_clearTexImage(g, self, level) ==
    Outcome(glClearTexImage(g, self.m_name, level), self, FALSE)

getTextureLayout(self) ==
    TextureLayout(self.m_internal_format, self.m_width, self.m_height, 1,
                  self.m_format, self.m_type, self.m_levels)

\* ------------------------------------------------ ShaderStorageBufferObject
NoSsbo(st) == [st |-> st, m_handle |-> 0, m_size |-> 0]

\* n: the name glGenBuffers issues (0: none).
SSBO_ctor(g, id, size, memOk, n) ==
    LET s0 == [st |-> "alive", m_handle |-> 0, m_size |-> size]
        g1 == glGenBuffers(g, n, id)
        s1 == [s0 EXCEPT !.m_handle = Out(@, n)]
        g2 == glBindBufferBase(g1, 0, s1.m_handle)
        g3 == glBufferData(g2, size, memOk)
        g4 == glBindBufferBase(g3, 0, 0)
    IN  Outcome(g4, s1, FALSE)

SSBO_dtor(g, self) ==
    Outcome(glDeleteBuffers(g, self.m_handle), NoSsbo("dead"), FALSE)

\* Fault variant of SSBO_reload: the buffer held is deleted before its store
\* is re-specified.  The amended C5 fails on it.
SSBO_reload_Deleting(g, self, size, index, memOk) ==
    LET s1 == [self EXCEPT !.m_size = size]
        g0 == glDeleteBuffers(g, s1.m_handle)
        g1 == glBindBufferBase(g0, index, s1.m_handle)
        g2 == glBufferData(g1, size, memOk)
        g3 == glBindBufferBase(g2, index, 0)
    IN  Outcome(g3, s1, FALSE)

SSBO_reload(g, self, size, index, memOk) ==
    LET s1 == [self EXCEPT !.m_size = size]
        g1 == glBindBufferBase(g, index, s1.m_handle)
        g2 == glBufferData(g1, size, memOk)
        g3 == glBindBufferBase(g2, index, 0)
    IN  Outcome(g3, s1, FALSE)

\* ret: the value returned, false when the pointer is null.
SSBO_map(g, self, mapOk) ==
    LET m == glMapBuffer(g, mapOk)
    IN  [gl |-> m.gl, self |-> self, threw |-> FALSE, ret |-> m.ptr]

SSBO_unmap(g, self) == Outcome(glUnmapBuffer(g), self, FALSE)

SSBO_bind(g, self, index) ==
    Outcome(glBindBufferBase(g, index, self.m_handle), self, FALSE)

getSize(self) == self.m_size

\* -------------------------------------------------------------- the system
\* gl: the context; tex, ssbo: the wrapper objects; last: the operation that
\* ran last, whether it threw, and whether one of its own driver calls set an
\* error (arg: the binding index it was given, for the operations that take
\* one).
VARIABLES gl, tex, ssbo, last
vars == <<gl, tex, ssbo, last>>

\* The arguments a caller passes, and what the driver may answer.
TexArgs(layouts) ==
    [layout : layouts, data : BOOLEAN, generateMipmap : BOOLEAN,
     customLevels : BOOLEAN]
\* The name a create call issues: a free one, or none (0) when it fails.
Issued(free, fails) == IF fails THEN {0} ELSE free
\* An uninitialised variable holds anything; it is read only when the call
\* that should set it failed.
Uninit(fails, max) == IF fails THEN 0..max ELSE {0}
Alive(w) == w.st = "alive"

\* The operations as applied to the current state.
Construct(t, a, n, name0) ==
    Texture2D_ctor(gl, t, a.layout, a.data, a.generateMipmap, a.customLevels,
                   n, name0)
Reload(t, a, n) ==
    Texture2D_reload(gl, t, tex[t], a.layout, a.data, a.generateMipmap,
                     a.customLevels, n)
ReloadIssued(t, fails) == Issued(FreeTex(ReloadRelease(gl, tex[t].m_name)), fails)
Copy(t, src, f, fbo0) == Texture2D_copyTexture(gl, tex[t], tex[src].m_name, f, fbo0)

Ran(op, id, arg, r) ==
    [op |-> op, id |-> id, arg |-> arg, threw |-> r.threw, ret |-> r.ret,
     raised |-> r.gl.raised]

\* A context in which no wrapper exists yet.  The application has its own
\* framebuffer and buffer, and either has them bound or has nothing bound.
Init ==
    /\ \E bound \in BOOLEAN :
         gl = [tex |-> [n \in TexNames |-> NoTex],
               buf |-> [n \in BufNames |->
                          IF n = AppBuf
                          THEN [live |-> TRUE, owner |-> 0, size |-> 1, mapped |-> FALSE]
                          ELSE NoBuf],
               fbo |-> {AppFbo},
               attach |-> [f \in FboNames |-> 0],
               err |-> "GL_NO_ERROR",
               texBinding |-> 0,
               drawFbo |-> IF bound THEN AppFbo ELSE 0,
               readFbo |-> IF bound THEN AppFbo ELSE 0,
               ssbo |-> [i \in Indices |-> IF bound THEN AppBuf ELSE 0],
               ssboGeneric |-> IF bound THEN AppBuf ELSE 0,
               raised |-> FALSE, log |-> <<>>]
    /\ tex = [t \in TexIds |-> NoTexture("none")]
    /\ ssbo = [s \in SsboIds |-> NoSsbo("none")]
    /\ last = [op |-> "none", id |-> 0, arg |-> 0, threw |-> FALSE, ret |-> TRUE,
               raised |-> FALSE]

\* A constructor that throws leaves no object, and its destructor never runs.
TexConstruct(t, layouts) ==
    /\ tex[t].st = "none"
    /\ \E fails \in BOOLEAN, a \in TexArgs(layouts) :
         \E n \in Issued(FreeTex(gl), fails), name0 \in Uninit(fails, MaxTex) :
           LET r == Construct(t, a, n, name0)
           IN  /\ gl' = Rest(r.gl)
               /\ tex' = [tex EXCEPT ![t] = IF r.threw THEN NoTexture("failed")
                                            ELSE r.self]
               /\ last' = Ran("Texture2D", t, 0, r)
    /\ UNCHANGED ssbo

TexDestruct(t) ==
    /\ Alive(tex[t])
    /\ LET r == Texture2D_dtor(gl, tex[t])
       IN  /\ gl' = Rest(r.gl)
           /\ tex' = [tex EXCEPT ![t] = r.self]
           /\ last' = Ran("~Texture2D", t, 0, r)
    /\ UNCHANGED ssbo

TexBind(t) ==
    /\ Alive(tex[t])
    /\ LET r == Texture2D_bindTexture(gl, tex[t])
       IN  /\ gl' = Rest(r.gl)
           /\ tex' = [tex EXCEPT ![t] = r.self]
           /\ last' = Ran("bindTexture", t, 0, r)
    /\ UNCHANGED ssbo

TexUpdateMipmaps(t) ==
    /\ Alive(tex[t])
    /\ LET r == Texture2D_updateMipmaps(gl, tex[t])
       IN  /\ gl' = Rest(r.gl)
           /\ tex' = [tex EXCEPT ![t] = r.self]
           /\ last' = Ran("updateMipmaps", t, 0, r)
    /\ UNCHANGED ssbo

TexCopy(t) ==
    /\ Alive(tex[t])
    /\ \E fails \in BOOLEAN, src \in TexIds :
         \E f \in Issued(FreeFbo(gl), fails), fbo0 \in Uninit(fails, MaxFbo) :
           /\ Alive(tex[src])
           /\ LET r == Copy(t, src, f, fbo0)
              IN  /\ gl' = Rest(r.gl)
                  /\ tex' = [tex EXCEPT ![t] = r.self]
                  /\ last' = Ran("copyTexture", t, 0, r)
    /\ UNCHANGED ssbo

TexReload(t, layouts) ==
    /\ Alive(tex[t])
    /\ \E fails \in BOOLEAN, a \in TexArgs(layouts) :
       \E n \in ReloadIssued(t, fails) :
         LET r == Reload(t, a, n)
         IN  /\ gl' = Rest(r.gl)
             /\ tex' = [tex EXCEPT ![t] = r.self]
             /\ last' = Ran("reload", t, 0, r)
    /\ UNCHANGED ssbo

TexClear(t) ==
    /\ Alive(tex[t])
    /\ \E level \in 0..MaxLevels :
         LET r == Texture2D_clearTexImage(gl, tex[t], level)
         IN  /\ gl' = Rest(r.gl)
             /\ tex' = [tex EXCEPT ![t] = r.self]
             /\ last' = Ran("clearTexImage", t, 0, r)
    /\ UNCHANGED ssbo

SsboConstruct(s) ==
    /\ ssbo[s].st = "none"
    /\ \E fails \in BOOLEAN, size \in Sizes, memOk \in BOOLEAN :
       \E n \in Issued(FreeBuf(gl), fails) :
         LET r == SSBO_ctor(gl, s, size, memOk, n)
         IN  /\ gl' = Rest(r.gl)
             /\ ssbo' = [ssbo EXCEPT ![s] = r.self]
             /\ last' = Ran("ShaderStorageBufferObject", s, 0, r)
    /\ UNCHANGED tex

SsboDestruct(s) ==
    /\ Alive(ssbo[s])
    /\ LET r == SSBO_dtor(gl, ssbo[s])
       IN  /\ gl' = Rest(r.gl)
           /\ ssbo' = [ssbo EXCEPT ![s] = r.self]
           /\ last' = Ran("~ShaderStorageBufferObject", s, 0, r)
    /\ UNCHANGED tex

SsboReload(s) ==
    /\ Alive(ssbo[s])
    /\ \E size \in Sizes, index \in Indices, memOk \in BOOLEAN :
         LET r == SSBO_reload(gl, ssbo[s], size, index, memOk)
         IN  /\ gl' = Rest(r.gl)
             /\ ssbo' = [ssbo EXCEPT ![s] = r.self]
             /\ last' = Ran("SSBO::reload", s, index, r)
    /\ UNCHANGED tex

SsboMap(s) ==
    /\ Alive(ssbo[s])
    /\ \E mapOk \in BOOLEAN :
         LET r == SSBO_map(gl, ssbo[s], mapOk)
         IN  /\ gl' = Rest(r.gl)
             /\ ssbo' = [ssbo EXCEPT ![s] = r.self]
             /\ last' = Ran("SSBO::map", s, 0, r)
    /\ UNCHANGED tex

SsboUnmap(s) ==
    /\ Alive(ssbo[s])
    /\ LET r == SSBO_unmap(gl, ssbo[s])
       IN  /\ gl' = Rest(r.gl)
           /\ ssbo' = [ssbo EXCEPT ![s] = r.self]
           /\ last' = Ran("SSBO::unmap", s, 0, r)
    /\ UNCHANGED tex

SsboBind(s) ==
    /\ Alive(ssbo[s])
    /\ \E index \in Indices :
         LET r == SSBO_bind(gl, ssbo[s], index)
         IN  /\ gl' = Rest(r.gl)
             /\ ssbo' = [ssbo EXCEPT ![s] = r.self]
             /\ last' = Ran("SSBO::bind", s, index, r)
    /\ UNCHANGED tex

Next ==
    \/ \E s \in SsboIds : SsboConstruct(s)
    \/ \E s \in SsboIds : SsboDestruct(s)
    \/ \E s \in SsboIds : SsboReload(s)
    \/ \E s \in SsboIds : SsboMap(s)
    \/ \E s \in SsboIds : SsboUnmap(s)
    \/ \E s \in SsboIds : SsboBind(s)
    \/ \E t \in TexIds : TexConstruct(t, SmallLayouts)
    \/ \E t \in TexIds : TexDestruct(t)
    \/ \E t \in TexIds : TexBind(t)
    \/ \E t \in TexIds : TexUpdateMipmaps(t)
    \/ \E t \in TexIds : TexCopy(t)
    \/ \E t \in TexIds : TexReload(t, SmallLayouts)
    \/ \E t \in TexIds : TexClear(t)

\* Every operation of both wrappers, in any order.
Spec == Init /\ [][Next]_vars

\* One Texture2D object alone, over every layout: the layout arithmetic.
NextLayout ==
    \/ TexConstruct(1, Layouts)
    \/ TexReload(1, Layouts)
    \/ TexDestruct(1)

SpecLayout == Init /\ [][NextLayout]_vars

\* ------------------------------------------------------------ the claims
TexOwned(g, t) == {n \in TexNames : g.tex[n].live /\ g.tex[n].owner = t}
BufOwned(g, s) == {n \in BufNames : g.buf[n].live /\ g.buf[n].owner = s}
Call(call, name) == [call |-> call, name |-> name]
Calls(g) == {g.log[i] : i \in 1..Len(g.log)}
FirstCall(g) == IF g.log = <<>> THEN Call("none", 0) ELSE g.log[1]
Valid(t) ==
    /\ tex[t].m_name # 0
    /\ TexLive(gl, tex[t].m_name)
    /\ gl.tex[tex[t].m_name].owner = t

\* C1: every driver handle a wrapper created is deleted exactly once: none
\* is still live once the wrapper's lifetime has ended (by its destructor,
\* or by its constructor throwing), and the destructor's delete is of a
\* handle that is live, not of one already deleted.
C1_HandlesReleasedExactlyOnce ==
    /\ \A t \in TexIds : tex[t].st \in {"dead", "failed"} => TexOwned(gl, t) = {}
    /\ \A s \in SsboIds : ssbo[s].st = "dead" => BufOwned(gl, s) = {}
    /\ \A t \in TexIds : Alive(tex[t]) =>
         Texture2D_dtor(gl, tex[t]).gl.log
            = <<Call("glDeleteTextures", tex[t].m_name)>>

\* C2: a wrapper between construction and destruction owns at most one live
\* handle, the one it stores; and whatever the outcome of Texture2D::reload,
\* the name held before it has been deleted and the only live texture the
\* wrapper owns afterwards is the one reload created.
C2_AtMostOneLiveHandle ==
    /\ \A t \in TexIds : Alive(tex[t]) => TexOwned(gl, t) \subseteq {tex[t].m_name}
    /\ \A s \in SsboIds : Alive(ssbo[s]) => BufOwned(gl, s) \subseteq {ssbo[s].m_handle}
    /\ \A t \in TexIds : Alive(tex[t]) =>
         \A fails \in BOOLEAN, a \in TexArgs(SmallLayouts) :
           \A n \in ReloadIssued(t, fails) :
           LET r == Reload(t, a, n)
           IN  /\ TexLive(gl, tex[t].m_name) =>
                    FirstCall(r.gl) = Call("glDeleteTextures", tex[t].m_name)
               /\ TexOwned(r.gl, t) \subseteq {r.self.m_name} \cap {n}

\* A reload has thrown, and the wrapper owns exactly the texture it stores.
C2_Witness ==
    /\ last.op = "reload" /\ last.threw
    /\ Alive(tex[last.id])
    /\ TexOwned(gl, last.id) = {tex[last.id].m_name}

\* C3: a construction that returns without throwing leaves a valid handle
\* (non-zero, live, issued to this wrapper) that bind / bindTexture attaches.
C3_ConstructionYieldsValidHandle ==
    /\ (last.op = "Texture2D" /\ ~last.threw) =>
         /\ Valid(last.id)
         /\ Texture2D_bindTexture(gl, tex[last.id]).gl.texBinding
               = tex[last.id].m_name
    /\ (last.op = "ShaderStorageBufferObject" /\ ~last.threw) =>
         /\ ssbo[last.id].m_handle # 0
         /\ BufLive(gl, ssbo[last.id].m_handle)
         /\ gl.buf[ssbo[last.id].m_handle].owner = last.id
         /\ \A i \in Indices :
              SSBO_bind(gl, ssbo[last.id], i).gl.ssbo[i] = ssbo[last.id].m_handle

\* C4: after bind(i), binding point i holds the wrapper's handle and every
\* other indexed binding point is unchanged; after bindTexture(), the
\* GL_TEXTURE_2D binding holds the wrapper's name; the wrapper is unchanged.
C4_Step ==
    /\ last'.op = "SSBO::bind" =>
         /\ gl'.ssbo[last'.arg] = ssbo[last'.id].m_handle
         /\ \A j \in Indices \ {last'.arg} : gl'.ssbo[j] = gl.ssbo[j]
         /\ ssbo' = ssbo
    /\ last'.op = "bindTexture" =>
         /\ gl'.texBinding = tex[last'.id].m_name
         /\ tex' = tex
C4_BindAttachesHandle == [][C4_Step]_vars

\* C5 as claimed: reload of either wrapper deletes the handle held and
\* creates a new one, so the handle held afterwards was issued by this
\* reload and the old object is gone.
C5_ReloadDestroysThenRecreates ==
    /\ \A t \in TexIds : Alive(tex[t]) =>
         \A fails \in BOOLEAN, a \in TexArgs(SmallLayouts) :
           \A n \in ReloadIssued(t, fails) :
           LET r == Reload(t, a, n)
           IN  r.gl.log = << Call(IF TexLive(gl, tex[t].m_name)
                                  THEN "glDeleteTextures"
                                  ELSE "glDeleteTextures(unused)", tex[t].m_name),
                             Call("glCreateTextures", r.self.m_name) >>
    /\ \A s \in SsboIds : Alive(ssbo[s]) =>
         \A size \in Sizes, index \in Indices, memOk \in BOOLEAN :
           LET r == SSBO_reload(gl, ssbo[s], size, index, memOk)
           IN  r.gl.log = << Call(IF BufLive(gl, ssbo[s].m_handle)
                                  THEN "glDeleteBuffers"
                                  ELSE "glDeleteBuffers(unused)", ssbo[s].m_handle),
                             Call("glGenBuffers", r.self.m_handle) >>

\* C5 as amended: Texture2D::reload first deletes the name held, then asks
\* for a new one: when it returns normally the name held is the one just
\* issued, live and this wrapper's; when the driver issues none it throws and
\* m_name keeps the deleted name.  ShaderStorageBufferObject::reload neither
\* deletes nor creates a buffer: the handle and its liveness are unchanged.
C5_ReloadAmended ==
    /\ \A t \in TexIds : Alive(tex[t]) =>
         \A fails \in BOOLEAN, a \in TexArgs(SmallLayouts) :
           \A n \in ReloadIssued(t, fails) :
           LET r == Reload(t, a, n)
               old == tex[t].m_name
           IN  /\ FirstCall(r.gl).name = old
               /\ FirstCall(r.gl).call \in {"glDeleteTextures", "glDeleteTextures(unused)"}
               /\ TexLive(gl, old) => FirstCall(r.gl).call = "glDeleteTextures"
               /\ ~r.threw =>
                    /\ r.gl.log = <<FirstCall(r.gl), Call("glCreateTextures", r.self.m_name)>>
                    /\ TexLive(r.gl, r.self.m_name)
                    /\ r.gl.tex[r.self.m_name].owner = t
               /\ n = 0 => r.threw /\ r.self.m_name = old /\ Len(r.gl.log) = 1
               /\ n # 0 => r.self.m_name = n
    /\ \A s \in SsboIds : Alive(ssbo[s]) =>
         \A size \in Sizes, index \in Indices, memOk \in BOOLEAN :
           LET r == SSBO_reload(gl, ssbo[s], size, index, memOk)
           IN  /\ r.gl.log = <<>>
               /\ r.self.m_handle = ssbo[s].m_handle
               /\ BufLive(r.gl, r.self.m_handle) <=> BufLive(gl, ssbo[s].m_handle)

\* A buffer has just been reloaded and still holds its live handle, beside a
\* texture that a reload re-created (a fresh texture has no bindless handle).
C5_Witness ==
    /\ last.op = "SSBO::reload"
    /\ BufLive(gl, ssbo[last.id].m_handle)
    /\ \E t \in TexIds : Valid(t) /\ ~gl.tex[tex[t].m_name].handle

\* C6: an operation one of whose driver calls set an error reports it, by
\* throwing or by returning false.
C6_ErrorsPropagated == last.raised => (last.threw \/ ~last.ret)

\* C7: a TextureException reports an error that a driver call of the
\* throwing operation raised, none was pending from before; and an operation
\* whose own calls all succeed does not throw.
C7_Step ==
    last'.op \in {"Texture2D", "reload", "copyTexture"} =>
        /\ last'.threw => (gl.err = "GL_NO_ERROR" /\ last'.raised)
        /\ ~last'.raised => ~last'.threw
C7_ThrownErrorIsOwn == [][C7_Step]_vars

\* The level count of a full mip chain: the L with 2^(L-1) <= max(w, h) < 2^L.
FullChain(w, h) ==
    CHOOSE L \in 1..(Max(w, h) + 1) : 2^(L-1) <= Max(w, h) /\ Max(w, h) < 2^L

ExpectedLayout(a) ==
    TextureLayout(a.layout.internal_format, a.layout.width, a.layout.height, 1,
                  a.layout.format, a.layout.type,
                  IF a.generateMipmap /\ ~a.customLevels
                  THEN FullChain(a.layout.width, a.layout.height)
                  ELSE a.layout.levels)

\* C8: after the constructor and after reload, getTextureLayout reports the
\* width, height and formats of the layout passed in, depth 1, and
\* 1 + floor(log2(max(w, h))) levels when generateMipmap and not
\* customLevels, layout.levels otherwise; that level count is the one handed
\* to the driver, which has allocated it when the call returned normally.
C8_LevelsAndLayout ==
    \A t \in TexIds, a \in TexArgs(Layouts) :
      /\ tex[t].st = "none" =>
           \A fails \in BOOLEAN :
           \A n \in Issued(FreeTex(gl), fails), name0 \in Uninit(fails, MaxTex) :
             LET r == Construct(t, a, n, name0)
             IN  ~r.threw =>
                   /\ getTextureLayout(r.self) = ExpectedLayout(a)
                   /\ r.gl.tex[r.self.m_name].levels = ExpectedLayout(a).levels
      /\ Alive(tex[t]) =>
           \A fails \in BOOLEAN : \A n \in ReloadIssued(t, fails) :
             LET r == Reload(t, a, n)
             IN  /\ getTextureLayout(r.self) = ExpectedLayout(a)
                 /\ ~r.threw =>
                      r.gl.tex[r.self.m_name].levels = ExpectedLayout(a).levels

\* A reload returned normally on a 1 x 2 texture whose two levels the driver
\* has allocated.
C8_Witness ==
    /\ last.op = "reload" /\ ~last.threw
    /\ tex[last.id].m_width = 1 /\ tex[last.id].m_height = 2
    /\ getTextureLayout(tex[last.id]).levels = 2
    /\ gl.tex[tex[last.id].m_name].levels = 2

\* C9: the state of a live wrapper is that of a freshly constructed one: its
\* name is its own live texture and its bindless handle is the valid handle
\* of that texture.
C9_StateRefersToLiveName ==
    \A t \in TexIds : Alive(tex[t]) =>
        /\ Valid(t)
        /\ tex[t].m_texture_handle = HandleOf(tex[t].m_name)
        /\ HandleValid(gl, tex[t].m_texture_handle)

\* C10: copyTexture leaves the draw-framebuffer, read-framebuffer and
\* GL_TEXTURE_2D bindings as they were and no framebuffer behind; the
\* buffer's constructor and reload leave every indexed binding point as it
\* was.
C10_Step ==
    /\ last'.op = "copyTexture" =>
         /\ gl'.drawFbo = gl.drawFbo /\ gl'.readFbo = gl.readFbo
         /\ gl'.texBinding = gl.texBinding
         /\ gl'.fbo = gl.fbo
    /\ last'.op \in {"ShaderStorageBufferObject", "SSBO::reload"} =>
         gl'.ssbo = gl.ssbo
C10_BindingsRestored == [][C10_Step]_vars

====
